---- MODULE Spec2Model ----
(***************************************************************************)
(* Model of backend/main.py of the culinary repository: the /searches      *)
(* handler find_recipies (concurrent fetch + JSON-LD extraction, ordered   *)
(* aggregation under a limit), extract_json_ld, analyze_recipe_data and    *)
(* sort_recipes_with_gemini.                                               *)
(*                                                                         *)
(* A Python value that may be absent (a missing dict key, None) is a       *)
(* sequence: <<>> when absent, <<v>> when present.  A Python dict whose    *)
(* insertion order matters is a sequence of <<key, value>> pairs.          *)
(***************************************************************************)
EXTENDS Integers, Sequences, FiniteSets, TLC

VARIABLES
    \* find_recipies (the fan-out coordinator)
    organic_results,   \* results["organic_results"]: the kind of each result's link
    limit,             \* the limit query parameter
    tasks,             \* one entry per valid link: the state of its extract_json_ld task
    completed,         \* history: indices of the tasks in the order they finished
    pc,                \* where find_recipies stands
    recipes,           \* the recipes dict of find_recipies
    \* extract_json_ld on one fetched page
    page,              \* the response to the GET of the page
    xresult,           \* how the call ended
    \* analyze_recipe_data
    arecipes,          \* the recipes mapping as passed in
    aresult,           \* how the call ended, and the mapping as the call left it
    \* sort_recipes_with_gemini
    srecipes,          \* the recipes mapping passed in
    gemini,            \* the API key's presence and the collaborator's reply
    sresult            \* how the call ended and what it returned

vars == <<organic_results, limit, tasks, completed, pc, recipes,
          page, xresult, arecipes, aresult, srecipes, gemini, sresult>>

coordVars == <<organic_results, limit, tasks, completed, pc, recipes>>
extractVars == <<page, xresult>>
analyzeVars == <<arecipes, aresult>>
sortVars == <<srecipes, gemini, sresult>>

----------------------------------------------------------------------------
(* Generic helpers *)

Range(s) == {s[i] : i \in 1..Len(s)}

RECURSIVE SeqsUpTo(_, _)
\* every sequence over S of length at most k
SeqsUpTo(S, k) ==
    IF k = 0 THEN {<<>>}
    ELSE LET shorter == SeqsUpTo(S, k - 1)
         IN shorter \cup {Append(s, x) : s \in shorter, x \in S}

RECURSIVE SeqsOfLen(_, _)
SeqsOfLen(S, k) ==
    IF k = 0 THEN {<<>>}
    ELSE {Append(s, x) : s \in SeqsOfLen(S, k - 1), x \in S}

Min(a, b) == IF a <= b THEN a ELSE b

----------------------------------------------------------------------------
(* Python float arithmetic (IEEE-754 binary64, round to nearest, ties to   *)
(* even) as analyze_recipe_data uses it in                                 *)
(*     percentage = (frequency / num_recipes) * 100                        *)
(*     round(percentage), percentage >= 60, percentage < 40                *)
(* A positive float is [m, e]: its value is M * 2^e for the Precision-bit  *)
(* significand M (2^52 <= M < 2^53), kept as three limbs of 18 bits,       *)
(* m = <<l1, l2, l3>> with M = l1 * 2^36 + l2 * 2^18 + l3, because M does  *)
(* not fit the model checker's integers.  Zero is m = <<0, 0, 0>>.         *)

Precision == 53

Limb == 2^18

RECURSIVE Pow2(_)
Pow2(k) == IF k <= 0 THEN 1 ELSE 2 * Pow2(k - 1)

\* the top limb's value when the significand would need Precision + 1 bits
TopOverflow == Pow2(Precision - 36)

\* three limbs with the carries of the lower two moved up
Carry3(a1, a2, a3) ==
    LET c3 == a3 \div Limb
        c2 == (a2 + c3) \div Limb
    IN <<a1 + c2, (a2 + c3) % Limb, a3 % Limb>>

\* the limbs of P \div 2^d, for 0 <= d < 18
ShiftRight(p, d) ==
    LET lo == Pow2(d)
        hi == Pow2(18 - d)
    IN <<p[1] \div lo,
         (p[2] \div lo) + (p[1] % lo) * hi,
         (p[3] \div lo) + (p[2] % lo) * hi>>

\* The exact value (P + f) * 2^e, where P is the number the limbs p hold and
\* 0 <= f < 1 is non-zero iff sticky, rounded to the Precision bits left
\* after dropping P's last d bits (1 <= d < 18): ties to even.
RoundToPrecision(p, d, sticky, e) ==
    LET kept == ShiftRight(p, d)
        guard == (p[3] \div Pow2(d - 1)) % 2
        below == sticky \/ (p[3] % Pow2(d - 1)) # 0
        up == guard = 1 /\ (below \/ kept[3] % 2 = 1)
        inc == Carry3(kept[1], kept[2], kept[3] + 1)
    IN IF ~up THEN [m |-> kept, e |-> e + d]
       ELSE IF inc[1] >= TopOverflow
            THEN [m |-> <<TopOverflow \div 2, 0, 0>>, e |-> e + d + 1]
            ELSE [m |-> inc, e |-> e + d]

RECURSIVE LeadingZeros(_, _)
\* the zero bits after the binary point of r / n before its first one (0 < r < n)
LeadingZeros(r, n) == IF 2 * r >= n THEN 0 ELSE 1 + LeadingZeros(2 * r, n)

\* frequency / num_recipes, for 0 <= c <= n and 0 < n < 2^12 (a name is
\* counted at most once per recipe, so frequency never exceeds num_recipes).
\* Long division in base 2^18 gives the quotient's first 54 bits: the
\* Precision kept ones and a guard bit; the last remainder is the sticky rest.
FloatDiv(c, n) ==
    IF c = 0 THEN [m |-> <<0, 0, 0>>, e |-> 0]
    ELSE IF c = n THEN [m |-> <<TopOverflow \div 2, 0, 0>>, e |-> 1 - Precision]
    ELSE LET z == LeadingZeros(c, n)
             r0 == c * Pow2(z)
             d1 == (r0 * Limb) \div n
             r1 == (r0 * Limb) % n
             d2 == (r1 * Limb) \div n
             r2 == (r1 * Limb) % n
             d3 == (r2 * Limb) \div n
             r3 == (r2 * Limb) % n
         IN RoundToPrecision(<<d1, d2, d3>>, 1, r3 > 0, 0 - (z + Precision + 1))

\* x * 100: 100 is exact in binary64, so the product is the exact x * 100
\* (59 or 60 bits) rounded once.
FloatMul100(x) ==
    IF x.m = <<0, 0, 0>> THEN x
    ELSE LET p == Carry3(x.m[1] * 100, x.m[2] * 100, x.m[3] * 100)
             d == IF p[1] >= TopOverflow * Pow2(6) THEN 7 ELSE 6
         IN RoundToPrecision(p, d, FALSE, x.e)

\* floor(x) for a float 0 <= x < 2^16
FloatFloor(x) ==
    IF x.m = <<0, 0, 0>> \/ x.e <= 0 - Precision THEN 0
    ELSE x.m[1] \div Pow2(0 - x.e - 36)

\* x >= k and x < k for a float 0 <= x < 2^16 and an integer k
FloatGE(x, k) == FloatFloor(x) >= k
FloatLT(x, k) == FloatFloor(x) < k

\* Python's round(x) of a float 0 <= x < 2^16: to the nearest integer, ties
\* to even
PyRound(x) ==
    LET i == FloatFloor(x)
        t == 0 - x.e - 36      \* the fraction bits the top limb holds
        half == IF x.m = <<0, 0, 0>> \/ x.e < 0 - Precision THEN FALSE
                ELSE IF x.e = 0 - Precision THEN TRUE
                ELSE (x.m[1] \div Pow2(t - 1)) % 2 = 1
        above == /\ half
                 /\ \/ x.m[2] # 0
                    \/ x.m[3] # 0
                    \/ IF x.e = 0 - Precision THEN x.m[1] # TopOverflow \div 2
                       ELSE x.m[1] % Pow2(t - 1) # 0
    IN IF above \/ (half /\ i % 2 = 1) THEN i + 1 ELSE i

-----
(* analyze_recipe_data                                                     *)
(*                                                                         *)
(* The recipes mapping is a sequence of recipe records; record k is the    *)
(* value under key recipe_k.  A recipe record is                           *)
(*   [aggregateRating, recipeIngredient]                                   *)
(* aggregateRating is [t, ratingValue]: t = "absent" (no such key),        *)
(*   "nondict" (a value that is not a dict) or "dict"; ratingValue is      *)
(*   [t, v]: "missing", "number" (v tenths), "numstring" (text float()     *)
(*   parses, v tenths), "text" (text float() rejects), "null", "bigint"    *)
(*   (an integer beyond the float range, such as a 400-digit literal).     *)
(* recipeIngredient is [t, items]: t = "list" or "nonlist"; an item is     *)
(*   [t, ingredient_name, frequency_percent, consensus_level,              *)
(*    is_secret_ingredient]: t = "str" (a plain string) or "dict";         *)
(*   ingredient_name "" stands for a missing or falsy name; the three      *)
(*   annotation keys are <<>> while the key is absent.                     *)

MaxRecipes == 44    \* the largest mapping analysed (uniform inputs)
MaxSmall == 2       \* the largest mapping of freely shaped records

EssentialPercent == 60
VariantPercent == 40
HighRatingTenths == 45

Names == {"salt", "saffron"}

\* float(x) for a ratingValue: the number in tenths, or the exception raised
PyFloat(rv) ==
    CASE rv.t = "missing"   -> [exc |-> "", v |-> 0]     \* .get("ratingValue", 0)
      [] rv.t = "number"    -> [exc |-> "", v |-> rv.v]
      [] rv.t = "numstring" -> [exc |-> "", v |-> rv.v]
      [] rv.t = "text"      -> [exc |-> "ValueError", v |-> 0]
      [] rv.t = "null"      -> [exc |-> "TypeError", v |-> 0]
      [] rv.t = "bigint"    -> [exc |-> "OverflowError", v |-> 0]

\* lines 224-233: the exception that escapes the try, "" if none
RatingEscapes(recipe_data) ==
    LET rating_info == recipe_data.aggregateRating
        f == PyFloat(rating_info.ratingValue)
    IN IF rating_info.t = "dict" /\ f.exc \notin {"", "ValueError", "TypeError"}
       THEN f.exc ELSE ""

\* lines 224-233
is_highly_rated(recipe_data) ==
    LET rating_info == recipe_data.aggregateRating
        f == PyFloat(rating_info.ratingValue)
    IN rating_info.t = "dict" /\ f.exc = "" /\ f.v >= HighRatingTenths

\* lines 202-208: whether the frequency pass counts the record
Counted(recipe_data) ==
    LET ingredients == recipe_data.recipeIngredient
    IN /\ ingredients.t = "list"
       /\ ~(ingredients.items # <<>> /\ ingredients.items[1].t = "str")

\* lines 211-213
ingredient_names_in_recipe(recipe_data) ==
    {ing.ingredient_name : ing \in
        {i \in Range(recipe_data.recipeIngredient.items) :
            i.t = "dict" /\ i.ingredient_name # ""}}

RECURSIVE CountUpTo(_, _)
\* lines 200-216: ingredient_counts after the first k records (0: no entry)
CountUpTo(rs, k) ==
    IF k = 0 THEN [name \in Names |-> 0]
    ELSE LET before == CountUpTo(rs, k - 1)
         IN IF ~Counted(rs[k]) THEN before
            ELSE [name \in Names |->
                    IF name \in ingredient_names_in_recipe(rs[k])
                    THEN before[name] + 1 ELSE before[name]]

ingredient_counts(rs) == CountUpTo(rs, Len(rs))

\* line 219
unique_ingredients(counts) == {name \in Names : counts[name] = 1}

\* line 248, for every frequency and num_recipes the model reaches
Percentages ==
    [n \in 1..MaxRecipes |-> [c \in 0..n |-> FloatMul100(FloatDiv(c, n))]]

percentage(frequency, num_recipes) == Percentages[num_recipes][frequency]

\* lines 251-254: the consensus_level key after the test, given its value before
ConsensusLevel(pct, before) ==
    IF FloatGE(pct, EssentialPercent) THEN <<"Essential">>
    ELSE IF FloatLT(pct, VariantPercent) THEN <<"Flavor Variant">>
    ELSE before

\* lines 239-256: one ingredient of a record
AnnotateIngredient(ingredient, highly, counts, num_recipes) ==
    IF ingredient.t # "dict" \/ ingredient.ingredient_name = "" THEN ingredient
    ELSE LET name == ingredient.ingredient_name
             pct == percentage(counts[name], num_recipes)
         IN [ingredient EXCEPT
                !.frequency_percent = <<PyRound(pct)>>,
                !.consensus_level = ConsensusLevel(pct, @),
                !.is_secret_ingredient =
                    <<highly /\ name \in unique_ingredients(counts)>>]

\* lines 222-256: one record of the annotation pass
AnnotateRecipe(recipe_data, counts, num_recipes) ==
    LET ingredients == recipe_data.recipeIngredient
    IN IF ingredients.t # "list" THEN recipe_data
       ELSE [recipe_data EXCEPT !.recipeIngredient.items =
                [i \in 1..Len(ingredients.items) |->
                    AnnotateIngredient(ingredients.items[i],
                        is_highly_rated(recipe_data), counts, num_recipes)]]

\* The whole function.  The records are annotated in place, in order; an
\* exception escaping the rating test of record k leaves the records before
\* k annotated and the others as they were.
analyze_recipe_data(rs) ==
    LET num_recipes == Len(rs)
        counts == ingredient_counts(rs)
        bad == {k \in 1..num_recipes : RatingEscapes(rs[k]) # ""}
        stop == IF bad = {} THEN num_recipes + 1
                ELSE CHOOSE k \in bad : \A j \in bad : k <= j
    IN IF num_recipes < 2 THEN [raised |-> "", recipes |-> rs]
       ELSE [raised |-> IF bad = {} THEN "" ELSE RatingEscapes(rs[stop]),
             recipes |-> [k \in 1..num_recipes |->
                            IF k < stop
                            THEN AnnotateRecipe(rs[k], counts, num_recipes)
                            ELSE rs[k]]]

(* Inputs *)

RatingValues ==
    {[t |-> "missing", v |-> 0], [t |-> "number", v |-> 44],
     [t |-> "number", v |-> 45], [t |-> "numstring", v |-> 50],
     [t |-> "text", v |-> 0], [t |-> "null", v |-> 0], [t |-> "bigint", v |-> 0]}

RatingInfos ==
    {[t |-> "absent", ratingValue |-> [t |-> "missing", v |-> 0]],
     [t |-> "nondict", ratingValue |-> [t |-> "missing", v |-> 0]]}
    \cup {[t |-> "dict", ratingValue |-> rv] : rv \in RatingValues}

Entry(t, name) ==
    [t |-> t, ingredient_name |-> name, frequency_percent |-> <<>>,
     consensus_level |-> <<>>, is_secret_ingredient |-> <<>>]

\* what the page or the normalization collaborator may put in a list
Entries == {Entry("str", "")} \cup {Entry("dict", name) : name \in Names \cup {""}}

MaxIngredients == 2

IngredientLists ==
    {[t |-> "nonlist", items |-> <<>>]}
    \cup {[t |-> "list", items |-> s] : s \in SeqsUpTo(Entries, MaxIngredients)}

RecipeInputs ==
    {[aggregateRating |-> r, recipeIngredient |-> l] :
        r \in RatingInfos, l \in IngredientLists}

\* n normalized records, the first c listing "salt" and the others "saffron"
UniformRecipes(n, c) ==
    [k \in 1..n |->
        [aggregateRating |-> [t |-> "absent", ratingValue |-> [t |-> "missing", v |-> 0]],
         recipeIngredient |->
            [t |-> "list",
             items |-> <<Entry("dict", IF k <= c THEN "salt" ELSE "saffron")>>]]]

CoordIdle ==
    /\ organic_results = <<>> /\ limit = 0 /\ tasks = <<>> /\ completed = <<>>
    /\ pc = "idle" /\ recipes = <<>>
ExtractIdle == page = [t |-> "idle", scripts |-> <<>>] /\ xresult = [status |-> "idle", item |-> <<>>]
AnalyzeIdle == arecipes = <<>> /\ aresult = [status |-> "idle", recipes |-> <<>>]
SortIdle ==
    /\ srecipes = <<>> /\ gemini = [key |-> FALSE, t |-> "idle", keys |-> <<>>]
    /\ sresult = [status |-> "idle", recipes |-> <<>>]

\* the call analyze_recipe_data(recipes) of line 317
Analyze ==
    /\ aresult.status = "pending"
    /\ LET r == analyze_recipe_data(arecipes)
       IN aresult' = [status |-> IF r.raised = "" THEN "returned" ELSE r.raised,
                      recipes |-> r.recipes]
    /\ UNCHANGED <<arecipes, coordVars, extractVars, sortVars>>

InitAnalyze ==
    /\ arecipes \in UNION {SeqsOfLen(RecipeInputs, n) : n \in 1..MaxSmall}
    /\ aresult = [status |-> "pending", recipes |-> <<>>]
    /\ CoordIdle /\ ExtractIdle /\ SortIdle

NextAnalyze == Analyze

SpecAnalyze == InitAnalyze /\ [][NextAnalyze]_vars

InitFrequency ==
    /\ \E n \in 2..MaxRecipes : \E c \in 1..n : arecipes = UniformRecipes(n, c)
    /\ aresult = [status |-> "pending", recipes |-> <<>>]
    /\ CoordIdle /\ ExtractIdle /\ SortIdle

SpecFrequency == InitFrequency /\ [][NextAnalyze]_vars

----------------------------------------------------------------------------
(* Properties of analyze_recipe_data *)

\* the records of the mapping whose ingredient list has an entry of that name
RecordsListing(rs, name) ==
    {k \in 1..Len(rs) :
        /\ rs[k].recipeIngredient.t = "list"
        /\ \E ing \in Range(rs[k].recipeIngredient.items) :
              ing.t = "dict" /\ ing.ingredient_name = name}

\* a / b rounded to the nearest integer, ties to even, in exact arithmetic
RoundedRatio(a, b) ==
    LET q == a \div b
        r == a % b
    IN IF 2 * r > b \/ (2 * r = b /\ q % 2 = 1) THEN q + 1 ELSE q

\* the ingredient entries the call has annotated: <<record, position>>
AnnotatedEntries ==
    {ki \in UNION {{<<k, i>> : i \in 1..Len(aresult.recipes[k].recipeIngredient.items)} :
                      k \in 1..Len(aresult.recipes)} :
        aresult.recipes[ki[1]].recipeIngredient.items[ki[2]].frequency_percent # <<>>}

OutEntry(ki) == aresult.recipes[ki[1]].recipeIngredient.items[ki[2]]

\* the rating of the record, coerced to a number, is at least 4.5
CoercedRatingHigh(recipe_data) ==
    /\ recipe_data.aggregateRating.t = "dict"
    /\ recipe_data.aggregateRating.ratingValue.t \in {"number", "numstring"}
    /\ recipe_data.aggregateRating.ratingValue.v >= HighRatingTenths

\* the record is in plain-string shape as the code decides it: its
\* ingredient list starts with a string
PlainStringShape(recipe_data) ==
    /\ recipe_data.recipeIngredient.t = "list"
    /\ recipe_data.recipeIngredient.items # <<>>
    /\ recipe_data.recipeIngredient.items[1].t = "str"

\* C5: after analyze_recipe_data on n >= 2 records, every annotated entry has
\* frequency_percent = round(100 * c / n), c the number of distinct records
\* whose ingredient list contains the entry's name, n the number of records.
C5_FrequencyLaw ==
    (aresult.status = "returned" /\ Len(arecipes) >= 2) =>
        \A ki \in AnnotatedEntries :
            OutEntry(ki).frequency_percent =
                <<RoundedRatio(
                    100 * Cardinality(RecordsListing(arecipes, OutEntry(ki).ingredient_name)),
                    Len(arecipes))>>

\* C6: after analyze_recipe_data on n >= 2 records, the written
\* frequency_percent decides the tag of every annotated entry: Essential when
\* it is >= 60, Flavor Variant when it is < 40, no consensus_level key when it
\* is in 40..59.
C6_ConsensusByWrittenPercent ==
    (aresult.status = "returned" /\ Len(arecipes) >= 2) =>
        \A ki \in AnnotatedEntries :
            LET fp == OutEntry(ki).frequency_percent[1]
            IN OutEntry(ki).consensus_level =
                  IF fp >= EssentialPercent THEN <<"Essential">>
                  ELSE IF fp < VariantPercent THEN <<"Flavor Variant">>
                  ELSE <<>>

\* C7: analyze_recipe_data on n >= 2 records raises no error, whatever the
\* ratings, and afterwards is_secret_ingredient of every annotated entry is
\* true iff exactly one record contains the entry's name and the owning
\* record's rating, coerced to a number, is >= 4.5.
C7_SecretIngredientLaw ==
    (aresult.status # "pending" /\ Len(arecipes) >= 2) =>
        /\ aresult.status = "returned"
        /\ \A ki \in AnnotatedEntries :
              OutEntry(ki).is_secret_ingredient =
                  <<(/\ Cardinality(RecordsListing(arecipes, OutEntry(ki).ingredient_name)) = 1
                     /\ CoercedRatingHigh(arecipes[ki[1]]))>>

\* C9: a record the frequency pass skips for its plain-string shape (its
\* ingredient list starts with a string) is left as it was: no entry of its
\* list gains or changes an annotation, whatever the other entries are.
C9_SkippedRecordUnannotated ==
    (aresult.status = "returned" /\ Len(arecipes) >= 2) =>
        \A k \in 1..Len(arecipes) :
            PlainStringShape(arecipes[k]) => aresult.recipes[k] = arecipes[k]

----------------------------------------------------------------------------
(* extract_json_ld                                                         *)
(*                                                                         *)
(* A response is [t, scripts]: t = "http_error" (client.get or             *)
(* raise_for_status raised an httpx.HTTPError: transport error, timeout,   *)
(* non-2xx status) or "ok", with the page's ld+json script tags in         *)
(* document order.  A script is [string, data]: string is whether          *)
(* script.string is non-empty, data what json.loads makes of it:           *)
(*   [t, type, id, graph, items]                                           *)
(* t = "invalid" (json.loads raises JSONDecodeError), "scalar" (a number,  *)
(* string, boolean or null), "list" (items: its elements) or "dict"        *)
(* (type: its @type, id: which object it is, graph: "absent", "iterable"   *)
(* with the @graph's elements in items, or "noniter" for an @graph that is *)
(* a number, a boolean or null).  An element is [t, type, id], t = "dict"  *)
(* or "scalar".                                                            *)

Item(type, id) == [t |-> "dict", type |-> type, id |-> id]
ScalarItem == [t |-> "scalar", type |-> "", id |-> 0]

Data(t, type, id, graph, items) ==
    [t |-> t, type |-> type, id |-> id, graph |-> graph, items |-> items]

\* lines 60-65: the candidate objects of a decoded list or dict
Graph(data) ==
    IF data.t = "list" THEN data.items
    ELSE IF data.graph = "absent" THEN <<Item(data.type, data.id)>>
    ELSE data.items

\* line 68
IsRecipe(item) == item.t = "dict" /\ item.type = "Recipe"

RECURSIVE ScanScripts(_, _)
\* lines 56-72, from script i on: how the call ends
ScanScripts(scripts, i) ==
    IF i > Len(scripts) THEN [status |-> "returned", item |-> <<>>]
    ELSE LET script == scripts[i]
             data == script.data
         IN IF ~script.string THEN ScanScripts(scripts, i + 1)
            ELSE IF data.t = "invalid" THEN ScanScripts(scripts, i + 1)
            ELSE IF data.t = "scalar" THEN ScanScripts(scripts, i + 1)
            ELSE IF data.t = "dict" /\ data.graph = "noniter"
                 \* for item in graph: TypeError, which line 70 does not catch
                 THEN [status |-> "TypeError", item |-> <<>>]
            ELSE LET graph == Graph(data)
                     hits == {j \in 1..Len(graph) : IsRecipe(graph[j])}
                 IN IF hits = {} THEN ScanScripts(scripts, i + 1)
                    ELSE [status |-> "returned",
                          item |-> <<graph[CHOOSE j \in hits : \A h \in hits : j <= h]>>]

\* lines 36-72
extract_json_ld(response) ==
    IF response.t = "http_error" THEN [status |-> "returned", item |-> <<>>]
    ELSE ScanScripts(response.scripts, 1)

(* Inputs *)

Script(string, data) == [string |-> string, data |-> data]

\* the script tags a page is made of
Scripts ==
    {Script(FALSE, Data("invalid", "", 0, "absent", <<>>)),
     Script(TRUE, Data("invalid", "", 0, "absent", <<>>)),
     Script(TRUE, Data("scalar", "", 0, "absent", <<>>)),
     Script(TRUE, Data("dict", "Recipe", 1, "absent", <<>>)),
     Script(TRUE, Data("dict", "Organization", 2, "absent", <<>>)),
     Script(TRUE, Data("list", "", 0, "absent",
                       <<Item("BreadcrumbList", 3), Item("Recipe", 4), Item("Recipe", 5)>>)),
     Script(TRUE, Data("list", "", 0, "absent", <<ScalarItem>>)),
     Script(TRUE, Data("dict", "", 6, "iterable",
                       <<ScalarItem, Item("WebSite", 7), Item("Recipe", 8)>>)),
     Script(TRUE, Data("dict", "Recipe", 9, "iterable", <<>>)),
     Script(TRUE, Data("dict", "", 10, "noniter", <<>>))}

MaxScripts == 2

Responses ==
    {[t |-> "http_error", scripts |-> <<>>]}
    \cup {[t |-> "ok", scripts |-> ss] : ss \in SeqsUpTo(Scripts, MaxScripts)}

\* one call extract_json_ld(client, url), the response being page
Extract ==
    /\ xresult.status = "pending"
    /\ xresult' = extract_json_ld(page)
    /\ UNCHANGED <<page, coordVars, analyzeVars, sortVars>>

InitExtract ==
    /\ page \in Responses
    /\ xresult = [status |-> "pending", item |-> <<>>]
    /\ CoordIdle /\ AnalyzeIdle /\ SortIdle

NextExtract == Extract

SpecExtract == InitExtract /\ [][NextExtract]_vars

(* Properties of extract_json_ld *)

RECURSIVE Candidates(_)
\* the candidate objects of a page in document order: of each non-empty,
\* decodable script the object itself, the list's elements or the elements of
\* the object's @graph collection
Candidates(scripts) ==
    IF scripts = <<>> THEN <<>>
    ELSE LET sc == scripts[1]
             own == IF ~sc.string \/ sc.data.t \in {"invalid", "scalar"} THEN <<>>
                    ELSE IF sc.data.t = "list" THEN sc.data.items
                    ELSE IF sc.data.graph = "absent" THEN <<Item(sc.data.type, sc.data.id)>>
                    ELSE IF sc.data.graph = "iterable" THEN sc.data.items
                    ELSE <<>>
         IN own \o Candidates(Tail(scripts))

\* the first candidate whose @type is Recipe, <<>> if there is none
FirstRecipe(scripts) ==
    LET cs == SelectSeq(Candidates(scripts), LAMBDA c : c.t = "dict" /\ c.type = "Recipe")
    IN IF cs = <<>> THEN <<>> ELSE <<cs[1]>>

\* C4: for any fetched page, extract_json_ld returns the first candidate
\* object whose @type is Recipe, in document order over the blocks and in
\* listed order inside a block; an empty or undecodable block is skipped on
\* its own; the result is none only if no block yields a match.
C4_FirstRecipeReturned ==
    (xresult.status # "pending" /\ page.t = "ok") =>
        /\ xresult.status = "returned"
        /\ xresult.item = FirstRecipe(page.scripts)

----------------------------------------------------------------------------
(* find_recipies: the fan-out over the search results                      *)
(*                                                                         *)
(* organic_results is the sequence of the results' link kinds; the URL of  *)
(* result u is identified by its rank u.  A link kind says what the link   *)
(* is and what its page holds:                                             *)
(*   "nolink"      the result has no link                                  *)
(*   "youtube"     the link contains youtube.com                           *)
(*   "http_error"  the GET fails (transport error, timeout, non-2xx)       *)
(*   "no_recipe"   a page whose only block is an Organization              *)
(*   "recipe"      a page with an undecodable block, then a list block     *)
(*                 holding a breadcrumb and the Recipe of this URL         *)
(*   "bad_graph"   a page with a block whose @graph is not iterable, then  *)
(*                 a block holding the Recipe of this URL                  *)
(* A task is [url, status, item]: status "pending" from gather's           *)
(* scheduling of it until it ends, then "returned" or the exception that   *)
(* ended it; item is what it returned (<<>> for None).                     *)

MaxResults == 3
MaxLimit == 3

LinkKinds == {"nolink", "youtube", "http_error", "no_recipe", "recipe", "bad_graph"}

\* the limit parameter is any int: negative, zero or positive
Limits == (0 - 1)..MaxLimit

\* the response to the GET of URL u
ResponseOf(kind, u) ==
    CASE kind = "http_error" -> [t |-> "http_error", scripts |-> <<>>]
      [] kind = "no_recipe" ->
            [t |-> "ok",
             scripts |-> <<Script(TRUE, Data("dict", "Organization", 0, "absent", <<>>))>>]
      [] kind = "recipe" ->
            [t |-> "ok",
             scripts |-> <<Script(TRUE, Data("invalid", "", 0, "absent", <<>>)),
                           Script(TRUE, Data("list", "", 0, "absent",
                                   <<Item("BreadcrumbList", 0), Item("Recipe", u)>>))>>]
      [] kind = "bad_graph" ->
            [t |-> "ok",
             scripts |-> <<Script(TRUE, Data("dict", "", 0, "noniter", <<>>)),
                           Script(TRUE, Data("dict", "Recipe", u, "absent", <<>>))>>]

RECURSIVE ValidLinksFrom(_, _)
\* lines 293-297: the ranks of the results whose link is kept, from rank u on
ValidLinksFrom(results, u) ==
    IF u > Len(results) THEN <<>>
    ELSE (IF results[u] \notin {"nolink", "youtube"} THEN <<u>> ELSE <<>>)
         \o ValidLinksFrom(results, u + 1)

valid_links(results) == ValidLinksFrom(results, 1)

\* line 306: f"recipe_{recipe_count}"
KeyName(recipe_count) == <<"recipe_", recipe_count>>

\* the results awaited through gather but in the order the tasks finished
GatheredInCompletionOrder(ts, done) ==
    [i \in 1..Len(done) |-> ts[done[i]].item]

\* line 301: extracted_data, the tasks' results in the order of valid_links
Gathered(ts, done) == [i \in 1..Len(ts) |-> ts[i].item]

\* gather returning as soon as limit records are there
JoinReadyAtLimit(ts, lim) ==
    \/ \A i \in 1..Len(ts) : ts[i].status = "returned"
    \/ /\ \A i \in 1..Len(ts) : ts[i].status \in {"pending", "returned"}
       /\ Cardinality({i \in 1..Len(ts) : ts[i].item # <<>>}) >= lim

\* line 301: await asyncio.gather(*tasks) returns once every task has returned
JoinReady(ts, lim) == \A i \in 1..Len(ts) : ts[i].status = "returned"

RECURSIVE AcceptLoop(_, _, _, _)
\* lines 303-308: the loop from extracted_data[i] on, acc the recipes so far
AcceptLoop(extracted_data, i, acc, lim) ==
    IF i > Len(extracted_data) THEN acc
    ELSE IF extracted_data[i] = <<>> THEN AcceptLoop(extracted_data, i + 1, acc, lim)
    ELSE LET recipe_count == Len(acc) + 1
             next == Append(acc, <<KeyName(recipe_count), extracted_data[i][1]>>)
         IN IF recipe_count >= lim THEN next
            ELSE AcceptLoop(extracted_data, i + 1, next, lim)

\* lines 289-301, up to the await: the links are filtered and gather
\* schedules one task per valid link, all at once
Dispatch ==
    /\ pc = "start"
    /\ LET links == valid_links(organic_results)
       IN tasks' = [i \in 1..Len(links) |->
                        [url |-> links[i], status |-> "pending", item |-> <<>>]]
    /\ pc' = "gather"
    /\ UNCHANGED <<organic_results, limit, completed, recipes,
                   extractVars, analyzeVars, sortVars>>

\* the task of valid link i gets its response and runs to its end
TaskFinish(i) ==
    /\ pc = "gather"
    /\ tasks[i].status = "pending"
    /\ LET u == tasks[i].url
           r == extract_json_ld(ResponseOf(organic_results[u], u))
       IN tasks' = [tasks EXCEPT ![i] = [url |-> u, status |-> r.status, item |-> r.item]]
    /\ completed' = Append(completed, i)
    /\ UNCHANGED <<organic_results, limit, pc, recipes,
                   extractVars, analyzeVars, sortVars>>

\* lines 301, 323-325: a task's exception comes out of gather and the
\* handler answers HTTP 500; the tasks still pending are left to themselves
GatherRaises ==
    /\ pc = "gather"
    /\ \E i \in 1..Len(tasks) : tasks[i].status \notin {"pending", "returned"}
    /\ pc' = "http500"
    /\ UNCHANGED <<organic_results, limit, tasks, completed, recipes,
                   extractVars, analyzeVars, sortVars>>

\* lines 301-311: gather returns and the loop accepts the records (no await
\* in between); with no record the handler returns {}, otherwise it goes on
\* to normalize, analyze and sort the mapping
Aggregate ==
    /\ pc = "gather"
    /\ JoinReady(tasks, limit)
    /\ recipes' = AcceptLoop(Gathered(tasks, completed), 1, <<>>, limit)
    /\ pc' = IF recipes' = <<>> THEN "returned_empty" ELSE "aggregated"
    /\ UNCHANGED <<organic_results, limit, tasks, completed,
                   extractVars, analyzeVars, sortVars>>

Init ==
    /\ organic_results \in SeqsUpTo(LinkKinds, MaxResults)
    /\ limit \in Limits
    /\ tasks = <<>>
    /\ completed = <<>>
    /\ pc = "start"
    /\ recipes = <<>>
    /\ ExtractIdle /\ AnalyzeIdle /\ SortIdle

Next ==
    \/ Dispatch
    \/ \E i \in 1..Len(tasks) : TaskFinish(i)
    \/ GatherRaises
    \/ Aggregate

Spec == Init /\ [][Next]_vars

(* Properties of the fan-out *)

Joined == pc \in {"returned_empty", "aggregated"}

\* the ranks of the dispatched URLs whose page yields a record, in rank order
RecipeRanks ==
    SelectSeq(valid_links(organic_results), LAMBDA u : organic_results[u] = "recipe")

\* C1: in every interleaving the accepted records are the non-none
\* extraction results in rank order, the j-th under key recipe_j: the j-th
\* accepted record is the Recipe of the j-th URL (by rank) that yields one,
\* the keys are recipe_1 .. recipe_k, and records are left out only once
\* limit of them are accepted.
C1_RankOrderKeys ==
    Joined =>
        /\ Len(recipes) <= Len(RecipeRanks)
        /\ \A j \in 1..Len(recipes) :
              recipes[j] = <<KeyName(j), Item("Recipe", RecipeRanks[j])>>
        /\ Len(recipes) >= limit \/ Len(recipes) = Len(RecipeRanks)

\* C1's case: two records accepted although the task of the lower-ranked
\* one finished first
C1_Witness ==
    /\ pc = "aggregated"
    /\ Len(recipes) >= 2
    /\ \E a, b \in 1..Len(completed) :
          /\ a < b
          /\ completed[a] > completed[b]
          /\ tasks[completed[a]].item # <<>>
          /\ tasks[completed[b]].item # <<>>
          /\ \E j \in 1..Len(recipes) : <<recipes[j][2]>> = tasks[completed[a]].item

\* C2: for a non-empty candidate list and limit >= 0 the number of accepted
\* records is min(number of non-none extractions, limit).
C2_OutputLength ==
    (Joined /\ limit >= 0 /\ valid_links(organic_results) # <<>>) =>
        Len(recipes) = Min(Len(RecipeRanks), limit)

\* C3: no failure of a fetch or an extraction leaves its task: every task
\* that has ended has returned, a failing URL's task has returned none, and
\* the request is not failed by it.
C3_FailureIsolated ==
    /\ pc # "http500"
    /\ \A i \in 1..Len(tasks) :
          /\ tasks[i].status \in {"pending", "returned"}
          /\ (tasks[i].status = "returned" /\ organic_results[tasks[i].url] # "recipe")
                => tasks[i].item = <<>>

\* C10: the tasks of all valid links are scheduled before any is awaited, and
\* no record is accepted before every one of them has ended on its own: none
\* is pending, cancelled or skipped when the aggregation runs, also when the
\* limit is reached by the others.
C10_JoinBeforeAccept ==
    /\ pc # "start" => Len(tasks) = Len(valid_links(organic_results))
    /\ (Joined \/ recipes # <<>>) =>
          /\ \A i \in 1..Len(tasks) : tasks[i].status = "returned"
          /\ Len(completed) = Len(tasks)

\* C10's case: the limit was reached by the others, and the task that
\* finished last is one whose record is beyond the limit and discarded
C10_Witness ==
    /\ pc = "aggregated"
    /\ limit >= 1
    /\ Len(recipes) = limit
    /\ LET last == completed[Len(completed)]
       IN /\ tasks[last].item # <<>>
          /\ \A j \in 1..Len(recipes) : <<recipes[j][2]>> # tasks[last].item

----------------------------------------------------------------------------
(* sort_recipes_with_gemini                                                *)
(*                                                                         *)
(* The recipes mapping is a sequence of <<key, record>> pairs in insertion *)
(* order.  gemini is [key, t, keys]: key is whether GEMINI_API_KEY is set, *)
(* t what the collaborator's reply is once cleaned and given to            *)
(* json.loads:                                                             *)
(*   "error"        the call or reading response.text raises               *)
(*   "unparseable"  json.loads raises JSONDecodeError                      *)
(*   "array"        a JSON array of the strings keys                       *)
(*   "nested"       a JSON array whose first element is itself an array    *)
(*   "scalar"       a JSON number, boolean or null                         *)
(*   "string"       a JSON string (iterated character by character)        *)

MaxSorted == 3     \* the most records in the mapping
MaxReply == 3      \* the most keys in the collaborator's array

\* recipe_0 is a key the mapping never holds
ReplyKeys(k) == {KeyName(j) : j \in 0..k}

HasKey(rs, key) == \E i \in 1..Len(rs) : rs[i][1] = key
ValueOf(rs, key) == rs[CHOOSE i \in 1..Len(rs) : rs[i][1] = key][2]

RECURSIVE Comprehension(_, _, _, _)
\* line 122: {key: recipes[key] for key in sorted_keys if key in recipes},
\* from sorted_keys[i] on; a key met again keeps its place in the dict
Comprehension(rs, sorted_keys, i, acc) ==
    IF i > Len(sorted_keys) THEN acc
    ELSE LET key == sorted_keys[i]
         IN IF HasKey(rs, key) /\ ~HasKey(acc, key)
            THEN Comprehension(rs, sorted_keys, i + 1, Append(acc, <<key, ValueOf(rs, key)>>))
            ELSE Comprehension(rs, sorted_keys, i + 1, acc)

\* lines 101-126: the mapping returned
sort_recipes_with_gemini(rs, g) ==
    IF ~g.key THEN rs                                  \* lines 104-106
    ELSE CASE g.t = "error" -> rs                      \* lines 116, 124-126
           [] g.t = "unparseable" -> rs                \* lines 120, 124-126
           [] g.t = "scalar" -> rs                     \* TypeError, lines 122, 124-126
           [] g.t = "nested" -> rs                     \* TypeError (unhashable), same
           [] g.t = "string" -> <<>>                   \* no character is a key
           [] g.t = "array" -> Comprehension(rs, g.keys, 1, <<>>)

\* the call sort_recipes_with_gemini(recipes, sort_by) of line 320
Sort ==
    /\ sresult.status = "pending"
    /\ sresult' = [status |-> "returned",
                   recipes |-> sort_recipes_with_gemini(srecipes, gemini)]
    /\ UNCHANGED <<srecipes, gemini, coordVars, extractVars, analyzeVars>>

InitSort ==
    /\ \E k \in 1..MaxSorted :
          /\ srecipes = [j \in 1..k |-> <<KeyName(j), Item("Recipe", j)>>]
          /\ gemini \in
                {[key |-> b, t |-> t, keys |-> <<>>] :
                    b \in BOOLEAN,
                    t \in {"error", "unparseable", "scalar", "nested", "string"}}
                \cup {[key |-> TRUE, t |-> "array", keys |-> ks] :
                        ks \in SeqsUpTo(ReplyKeys(k), MaxReply)}
    /\ sresult = [status |-> "pending", recipes |-> <<>>]
    /\ CoordIdle /\ ExtractIdle /\ AnalyzeIdle

NextSort == Sort

SpecSort == InitSort /\ [][NextSort]_vars

(* Properties of sort_recipes_with_gemini *)

\* C8: whatever the collaborator replies, sort_recipes_with_gemini does not
\* fail and returns a mapping with exactly the key-to-record pairs of its
\* input: none lost, none duplicated, none added.
C8_SamePairs ==
    sresult.status # "pending" =>
        /\ sresult.status = "returned"
        /\ Range(sresult.recipes) = Range(srecipes)
        /\ Len(sresult.recipes) = Len(srecipes)

----------------------------------------------------------------------------
(* What the code does satisfy where C2, C3, C4, C6 and C8 fail *)

\* With limit >= 1 the output length is min(non-none extractions, limit);
\* with limit <= 0 the loop still accepts the first record before it breaks.
LengthByLimit ==
    Joined =>
        Len(recipes) = Min(Len(RecipeRanks), IF limit >= 1 THEN limit ELSE 1)

\* An HTTP error is isolated: it never fails the request, only an exception
\* of the extraction does.
HttpErrorIsolated ==
    pc = "http500" => \E u \in 1..Len(organic_results) : organic_results[u] = "bad_graph"

\* On a page none of whose blocks holds a non-iterable @graph the first
\* Recipe candidate is returned.
FirstRecipeOnIterablePages ==
    (xresult.status # "pending" /\ page.t = "ok"
        /\ \A sc \in Range(page.scripts) : ~(sc.string /\ sc.data.graph = "noniter")) =>
        /\ xresult.status = "returned"
        /\ xresult.item = FirstRecipe(page.scripts)

\* The tag follows the exact percentage 100 * count / n, not the rounded one.
ConsensusByExactPercent ==
    (aresult.status = "returned" /\ Len(arecipes) >= 2) =>
        \A ki \in AnnotatedEntries :
            LET count == ingredient_counts(arecipes)[OutEntry(ki).ingredient_name]
            IN OutEntry(ki).consensus_level =
                  IF 100 * count >= EssentialPercent * Len(arecipes) THEN <<"Essential">>
                  ELSE IF 100 * count < VariantPercent * Len(arecipes)
                       THEN <<"Flavor Variant">>
                  ELSE <<>>

\* The pairs returned are always pairs of the input, each at most once, and
\* all of them when the reply is no array or an array naming every input key.
SortedPairsFromInput ==
    sresult.status # "pending" =>
        /\ Range(sresult.recipes) \subseteq Range(srecipes)
        /\ Cardinality(Range(sresult.recipes)) = Len(sresult.recipes)
        /\ (gemini.t \in {"error", "unparseable", "scalar", "nested"}
            \/ (gemini.t = "array"
                /\ \A i \in 1..Len(srecipes) : srecipes[i][1] \in Range(gemini.keys)))
              => Range(sresult.recipes) = Range(srecipes)

====
